---- MODULE Spec2Model ----
(***************************************************************************)
(* use-async-view: the useAsyncView hook, in its guarded web copy          *)
(* (isLoadingRef + AbortController), in its React Native copy and in the    *)
(* older web copy without the guard.                                       *)
(*                                                                         *)
(* The copies are driven in lockstep by the same host events: the first   *)
(* commit of the effects (Mount), a re-render with new props (Rerender),   *)
(* a call of reload() (Reload), the settlement of a loadFn promise         *)
(* (Settle) and the cleanup of the effects (Unmount).  The k-th call of    *)
(* run() is event k in every copy, and the loadFn promise started by       *)
(* event k settles in every copy in the same Settle step.                  *)
(*                                                                         *)
(* The state of a copy is what its useState cells and refs hold after the  *)
(* setState calls of the code; a JavaScript turn (a handler up to its      *)
(* first await, or the continuation after an await) is one atomic step.    *)
(***************************************************************************)
EXTENDS Integers, FiniteSets, Sequences, TLC

\* ---------------------------------------------------------------- bounds
\* Number of run() calls (automatic start and reload() together) explored.
MaxCalls == 2

\* ---------------------------------------------------------------- values
\* null: the initial value of data and error.
Null == "null"

\* null in abortControllerRef (controllers are numbered from 1).
NoController == 0

\* Values a loadFn promise can resolve with (T may itself admit null).
DataValues == {Null, "d1", "d2"}

\* Values a loadFn can reject with or throw (err is unknown: any value).
ErrorValues == {Null, "e1"}

\* The loadFn closures the host passes in successive renders.
LoadFns == {"f1", "f2"}

\* StatusType / AsyncViewStatus
StatusType == {"idle", "loading", "success", "error"}

\* What the call loadFnRef.current(signal) does before run() reaches its
\* await: it returns a promise, or it throws a value synchronously.
NoThrow == [throws |-> FALSE, value |-> Null]
SyncOutcomes == {NoThrow} \cup {[throws |-> TRUE, value |-> e] : e \in ErrorValues}

\* How a pending loadFn promise settles.
Settlements == {[kind |-> "resolve", value |-> v] : v \in DataValues}
               \cup {[kind |-> "reject", value |-> e] : e \in ErrorValues}

\* The components of the options object and the default views.
Fallback == "Fallback"
Loading == "Loading"
Success == "Success"
LoadingView == "LoadingView"
ErrorView == "ErrorView"
NativeLoadingView == "NativeLoadingView"
NativeErrorView == "NativeErrorView"
ErrorOptions == {Null, "Error"}

VARIABLES
    web,      \* state of the guarded web hook (useState cells, refs, history)
    native,   \* state of the React Native hook
    legacy,   \* state of the older web hook (no guard, no AbortController)
    auto,     \* the auto option of the latest render
    loadFn,   \* the loadFn option of the latest render
    Error,    \* the Error option (Null when not supplied)
    mounted,  \* TRUE while the effects are committed
    nextId,   \* number of the next run() call
    hist      \* history of the host's events

vars == <<web, native, legacy, auto, loadFn, Error, mounted, nextId, hist>>

\* ------------------------------------------------------- guarded web hook
\* useState/useRef initial values.  pending, aborted, lastInvoked,
\* lastSignal, calls, autoCalls, accepted, failures, escaped, ctrls and
\* lastStarted record the hook's interaction with loadFn, with the
\* AbortControllers it allocated and with the callers of run() and reload().
WebInit(f) ==
    [status |-> "idle", data |-> Null, error |-> Null,
     hasRunRef |-> FALSE, loadFnRef |-> f,
     isLoadingRef |-> FALSE, abortControllerRef |-> NoController,
     aborted |-> {}, pending |-> {}, lastInvoked |-> Null,
     lastSignal |-> NoController,
     calls |-> 0, autoCalls |-> 0, accepted |-> 0, failures |-> 0,
     escaped |-> 0, ctrls |-> 0, lastStarted |-> 0]

\* run() without the isLoadingRef early return.
runNoGuard(h, id, sync) ==
    LET started == [h EXCEPT !.abortControllerRef = id,
                             !.ctrls = @ + 1,
                             !.isLoadingRef = TRUE,
                             !.status = "loading",
                             !.error = Null,
                             !.calls = @ + 1,
                             !.lastInvoked = h.loadFnRef,
                             !.lastSignal = id,
                             !.lastStarted = id]
    IN  IF sync.throws
        THEN [started EXCEPT !.error = sync.value,
                             !.status = "error",
                             !.failures = @ + 1,
                             !.isLoadingRef = FALSE]
        ELSE [started EXCEPT !.pending = @ \cup {id}]

\* run() with the loadFn call placed before the try block: a synchronous
\* throw leaves the async function through its returned promise.
runThrowEscapes(h, id, sync) ==
    IF h.isLoadingRef
    THEN h
    ELSE LET started == [h EXCEPT !.abortControllerRef = id,
                                  !.ctrls = @ + 1,
                                  !.isLoadingRef = TRUE,
                                  !.status = "loading",
                                  !.error = Null,
                                  !.calls = @ + 1,
                                  !.lastInvoked = h.loadFnRef,
                                  !.lastSignal = id,
                                  !.lastStarted = id]
         IN  IF sync.throws
             THEN [started EXCEPT !.escaped = @ + 1]
             ELSE [started EXCEPT !.pending = @ \cup {id}]

\* run() that allocates an AbortController only when the ref holds none.
runReusesController(h, id, sync) ==
    IF h.isLoadingRef
    THEN h
    ELSE LET c == IF h.abortControllerRef = NoController
                  THEN id ELSE h.abortControllerRef
             started == [h EXCEPT !.abortControllerRef = c,
                                  !.ctrls = IF c = id THEN @ + 1 ELSE @,
                                  !.isLoadingRef = TRUE,
                                  !.status = "loading",
                                  !.error = Null,
                                  !.calls = @ + 1,
                                  !.lastInvoked = h.loadFnRef,
                                  !.lastSignal = c,
                                  !.lastStarted = id]
         IN  IF sync.throws
             THEN [started EXCEPT !.error = sync.value,
                                  !.status = "error",
                                  !.failures = @ + 1,
                                  !.isLoadingRef = FALSE]
             ELSE [started EXCEPT !.pending = @ \cup {id}]

\* run() without setStatus("loading").
runNoLoading(h, id, sync) ==
    IF h.isLoadingRef
    THEN h
    ELSE LET started == [h EXCEPT !.abortControllerRef = id,
                                  !.ctrls = @ + 1,
                                  !.isLoadingRef = TRUE,
                                  !.error = Null,
                                  !.calls = @ + 1,
                                  !.lastInvoked = h.loadFnRef,
                                  !.lastSignal = id,
                                  !.lastStarted = id]
         IN  IF sync.throws
             THEN [started EXCEPT !.error = sync.value,
                                  !.status = "error",
                                  !.failures = @ + 1,
                                  !.isLoadingRef = FALSE]
             ELSE [started EXCEPT !.pending = @ \cup {id}]

\* run() with setData(null) next to setError(null).
runClearsData(h, id, sync) ==
    IF h.isLoadingRef
    THEN h
    ELSE LET started == [h EXCEPT !.abortControllerRef = id,
                                  !.ctrls = @ + 1,
                                  !.isLoadingRef = TRUE,
                                  !.status = "loading",
                                  !.error = Null,
                                  !.data = Null,
                                  !.calls = @ + 1,
                                  !.lastInvoked = h.loadFnRef,
                                  !.lastSignal = id,
                                  !.lastStarted = id]
         IN  IF sync.throws
             THEN [started EXCEPT !.error = sync.value,
                                  !.status = "error",
                                  !.failures = @ + 1,
                                  !.isLoadingRef = FALSE]
             ELSE [started EXCEPT !.pending = @ \cup {id}]

\* run() that returns early once the stored controller has been aborted.
runRefusesAfterAbort(h, id, sync) ==
    IF h.isLoadingRef \/ h.abortControllerRef \in h.aborted
    THEN h
    ELSE LET started == [h EXCEPT !.abortControllerRef = id,
                                  !.ctrls = @ + 1,
                                  !.isLoadingRef = TRUE,
                                  !.status = "loading",
                                  !.error = Null,
                                  !.calls = @ + 1,
                                  !.lastInvoked = h.loadFnRef,
                                  !.lastSignal = id,
                                  !.lastStarted = id]
         IN  IF sync.throws
             THEN [started EXCEPT !.error = sync.value,
                                  !.status = "error",
                                  !.failures = @ + 1,
                                  !.isLoadingRef = FALSE]
             ELSE [started EXCEPT !.pending = @ \cup {id}]

\* run(), from its entry to the await (or through catch/finally when loadFn
\* throws synchronously).  id names the AbortController and the invocation.
run(h, id, sync) ==
    IF h.isLoadingRef
    THEN h
    ELSE LET started == [h EXCEPT !.abortControllerRef = id,
                                  !.ctrls = @ + 1,
                                  !.isLoadingRef = TRUE,
                                  !.status = "loading",
                                  !.error = Null,
                                  !.calls = @ + 1,
                                  !.lastInvoked = h.loadFnRef,
                                  !.lastSignal = id,
                                  !.lastStarted = id]
         IN  IF sync.throws
             THEN [started EXCEPT !.error = sync.value,
                                  !.status = "error",
                                  !.failures = @ + 1,
                                  !.isLoadingRef = FALSE]
             ELSE [started EXCEPT !.pending = @ \cup {id}]

\* The continuation with isLoadingRef reset in the try block only.
settleNoFinally(h, k, o) ==
    IF k \notin h.pending
    THEN h
    ELSE LET s == [h EXCEPT !.pending = @ \ {k}]
         IN  IF o.kind = "resolve"
             THEN [s EXCEPT !.data = o.value,
                            !.status = "success",
                            !.isLoadingRef = FALSE]
             ELSE [s EXCEPT !.error = o.value,
                            !.status = "error",
                            !.failures = @ + 1]

\* The continuation with isLoadingRef reset in the catch block only.
settleGuardOnFailureOnly(h, k, o) ==
    IF k \notin h.pending
    THEN h
    ELSE LET s == [h EXCEPT !.pending = @ \ {k}]
         IN  IF o.kind = "resolve"
             THEN [s EXCEPT !.data = o.value,
                            !.status = "success"]
             ELSE [s EXCEPT !.error = o.value,
                            !.status = "error",
                            !.failures = @ + 1,
                            !.isLoadingRef = FALSE]

\* The continuation that returns before any setter when its signal has
\* been aborted, resetting only isLoadingRef.
settleDropsAborted(h, k, o) ==
    IF k \notin h.pending
    THEN h
    ELSE LET s == [h EXCEPT !.pending = @ \ {k}]
         IN  IF k \in h.aborted
             THEN [s EXCEPT !.isLoadingRef = FALSE]
             ELSE IF o.kind = "resolve"
                  THEN [s EXCEPT !.data = o.value,
                                 !.status = "success",
                                 !.isLoadingRef = FALSE]
                  ELSE [s EXCEPT !.error = o.value,
                                 !.status = "error",
                                 !.failures = @ + 1,
                                 !.isLoadingRef = FALSE]

\* run(), the continuation after the await of invocation k.
settle(h, k, o) ==
    IF k \notin h.pending
    THEN h
    ELSE LET s == [h EXCEPT !.pending = @ \ {k}]
         IN  IF o.kind = "resolve"
             THEN [s EXCEPT !.data = o.value,
                            !.status = "success",
                            !.isLoadingRef = FALSE]
             ELSE [s EXCEPT !.error = o.value,
                            !.status = "error",
                            !.failures = @ + 1,
                            !.isLoadingRef = FALSE]

\* reload() that resets isLoadingRef before it calls run().
reloadForcesRun(h, id, sync) ==
    [run([h EXCEPT !.isLoadingRef = FALSE], id, sync)
        EXCEPT !.accepted = @ + (IF h.isLoadingRef THEN 0 ELSE 1)]

\* reload(); accepted counts the calls that found the guard clear.
reload(h, id, sync) ==
    [run(h, id, sync) EXCEPT !.accepted = @ + (IF h.isLoadingRef THEN 0 ELSE 1)]

\* The auto-start effect without the hasRunRef latch.
autoStartEffectNoLatch(h, a, id, sync) ==
    IF ~a
    THEN h
    ELSE LET r == run(h, id, sync)
         IN  [r EXCEPT !.autoCalls = @ + (r.calls - h.calls)]

\* The auto-start effect without the test of auto.
autoStartEffectNoAuto(h, a, id, sync) ==
    IF h.hasRunRef
    THEN h
    ELSE LET r == run([h EXCEPT !.hasRunRef = TRUE], id, sync)
         IN  [r EXCEPT !.autoCalls = @ + (r.calls - h.calls)]

\* The auto-start effect that re-arms the latch when auto is false.
autoStartEffectResetsLatch(h, a, id, sync) ==
    IF ~a
    THEN [h EXCEPT !.hasRunRef = FALSE]
    ELSE IF h.hasRunRef
         THEN h
         ELSE LET r == run([h EXCEPT !.hasRunRef = TRUE], id, sync)
              IN  [r EXCEPT !.autoCalls = @ + (r.calls - h.calls)]

\* The auto-start effect, deps [auto].
autoStartEffect(h, a, id, sync) ==
    IF ~a \/ h.hasRunRef
    THEN h
    ELSE LET r == run([h EXCEPT !.hasRunRef = TRUE], id, sync)
         IN  [r EXCEPT !.autoCalls = @ + (r.calls - h.calls)]

\* The effect that keeps loadFnRef current, deps [loadFn].
loadFnEffect(h, f) == [h EXCEPT !.loadFnRef = f]

\* A cleanup that also resets the status.
cleanupResets(h) ==
    IF h.abortControllerRef = NoController
    THEN h
    ELSE [h EXCEPT !.aborted = @ \cup {h.abortControllerRef}, !.status = "idle"]

\* A cleanup that also resets isLoadingRef.
cleanupClearsGuard(h) ==
    IF h.abortControllerRef = NoController
    THEN h
    ELSE [h EXCEPT !.aborted = @ \cup {h.abortControllerRef},
                   !.isLoadingRef = FALSE]

\* A cleanup that aborts nothing.
cleanupNoAbort(h) == h

\* A cleanup that also re-arms the auto-start latch.
cleanupResetsLatch(h) ==
    IF h.abortControllerRef = NoController
    THEN [h EXCEPT !.hasRunRef = FALSE]
    ELSE [h EXCEPT !.aborted = @ \cup {h.abortControllerRef},
                   !.hasRunRef = FALSE]

\* The cleanup of the unmount effect: abortControllerRef.current?.abort().
cleanup(h) ==
    IF h.abortControllerRef = NoController
    THEN h
    ELSE [h EXCEPT !.aborted = @ \cup {h.abortControllerRef}]

\* ----------------------------------------------------------- native hook
NativeInit(f) ==
    [status |-> "idle", data |-> Null, error |-> Null,
     hasRunRef |-> FALSE, loadFnRef |-> f,
     pending |-> {}, lastInvoked |-> Null,
     calls |-> 0, autoCalls |-> 0, lastStarted |-> 0]

\* run() of the native hook refusing to start while a promise is pending.
runNativeGuarded(h, id, sync) ==
    IF h.pending # {}
    THEN h
    ELSE LET started == [h EXCEPT !.status = "loading",
                                  !.error = Null,
                                  !.calls = @ + 1,
                                  !.lastInvoked = h.loadFnRef,
                                  !.lastStarted = id]
         IN  IF sync.throws
             THEN [started EXCEPT !.error = sync.value, !.status = "error"]
             ELSE [started EXCEPT !.pending = @ \cup {id}]

\* run() of the native hook up to its await: no guard, no AbortController.
runNative(h, id, sync) ==
    LET started == [h EXCEPT !.status = "loading",
                             !.error = Null,
                             !.calls = @ + 1,
                             !.lastInvoked = h.loadFnRef,
                             !.lastStarted = id]
    IN  IF sync.throws
        THEN [started EXCEPT !.error = sync.value, !.status = "error"]
        ELSE [started EXCEPT !.pending = @ \cup {id}]

\* run() of the native hook, the continuation after the await.
settleNative(h, k, o) ==
    IF k \notin h.pending
    THEN h
    ELSE LET s == [h EXCEPT !.pending = @ \ {k}]
         IN  IF o.kind = "resolve"
             THEN [s EXCEPT !.data = o.value, !.status = "success"]
             ELSE [s EXCEPT !.error = o.value, !.status = "error"]

reloadNative(h, id, sync) == runNative(h, id, sync)

autoStartEffectNative(h, a, id, sync) ==
    IF ~a \/ h.hasRunRef
    THEN h
    ELSE LET r == runNative([h EXCEPT !.hasRunRef = TRUE], id, sync)
         IN  [r EXCEPT !.autoCalls = @ + (r.calls - h.calls)]

loadFnEffectNative(h, f) == [h EXCEPT !.loadFnRef = f]

\* -------------------------------------------------------- older web hook
LegacyInit(f) ==
    [status |-> "idle", data |-> Null, error |-> Null,
     hasRunRef |-> FALSE, loadFnRef |-> f,
     pending |-> {}, lastInvoked |-> Null,
     calls |-> 0, autoCalls |-> 0, lastStarted |-> 0]

\* run() of the older web hook up to its await.
runLegacy(h, id, sync) ==
    LET started == [h EXCEPT !.status = "loading",
                             !.error = Null,
                             !.calls = @ + 1,
                             !.lastInvoked = h.loadFnRef,
                             !.lastStarted = id]
    IN  IF sync.throws
        THEN [started EXCEPT !.error = sync.value, !.status = "error"]
        ELSE [started EXCEPT !.pending = @ \cup {id}]

\* run() of the older web hook, the continuation after the await.
settleLegacy(h, k, o) ==
    IF k \notin h.pending
    THEN h
    ELSE LET s == [h EXCEPT !.pending = @ \ {k}]
         IN  IF o.kind = "resolve"
             THEN [s EXCEPT !.data = o.value, !.status = "success"]
             ELSE [s EXCEPT !.error = o.value, !.status = "error"]

reloadLegacy(h, id, sync) == runLegacy(h, id, sync)

autoStartEffectLegacy(h, a, id, sync) ==
    IF ~a \/ h.hasRunRef
    THEN h
    ELSE LET r == runLegacy([h EXCEPT !.hasRunRef = TRUE], id, sync)
         IN  [r EXCEPT !.autoCalls = @ + (r.calls - h.calls)]

loadFnEffectLegacy(h, f) == [h EXCEPT !.loadFnRef = f]

\* --------------------------------------------------------- RenderedView
\* The element a render returns: the component chosen and its props.
Element(c, d, m, e, r) ==
    [component |-> c, data |-> d, message |-> m, error |-> e, runFunction |-> r]

\* Loading ?? LoadingView and Fallback ?? LoadingView
LoadingComponent(L, DefaultLoading) == IF L = Null THEN DefaultLoading ELSE L
FallbackComponent(F, DefaultLoading) == IF F = Null THEN DefaultLoading ELSE F

\* The selection without the data !== null test of the success branch.
RenderedViewNoNullTest(status, data, error, Err, DefaultLoading, DefaultError) ==
    IF status = "loading" \/ status = "idle"
    THEN IF status = "idle"
         THEN Element(FallbackComponent(Fallback, DefaultLoading), Null, Null, Null, Null)
         ELSE Element(LoadingComponent(Loading, DefaultLoading), Null, Null, Null, Null)
    ELSE IF status = "success"
         THEN Element(Success, data, Null, Null, Null)
         ELSE IF Err # Null
              THEN Element(Err, Null, Null, Null, Null)
              ELSE Element(DefaultError, Null, "Failed to load data.", error, "reload")

\* The if / else-if / else chain that selects RenderedView.
RenderedView(status, data, error, Err, DefaultLoading, DefaultError) ==
    IF status = "loading" \/ status = "idle"
    THEN IF status = "idle"
         THEN Element(FallbackComponent(Fallback, DefaultLoading), Null, Null, Null, Null)
         ELSE Element(LoadingComponent(Loading, DefaultLoading), Null, Null, Null, Null)
    ELSE IF status = "success" /\ data # Null
         THEN Element(Success, data, Null, Null, Null)
         ELSE IF Err # Null
              THEN Element(Err, Null, Null, Null, Null)
              ELSE Element(DefaultError, Null, "Failed to load data.", error, "reload")

WebView == RenderedView(web.status, web.data, web.error, Error, LoadingView, ErrorView)
NativeView == RenderedView(native.status, native.data, native.error, Error,
                           NativeLoadingView, NativeErrorView)

\* ------------------------------------------------------------ the host
HistInit(a) ==
    [reloads |-> 0, activated |-> FALSE, autoAtMount |-> FALSE,
     reloadBeforeMount |-> FALSE, autoEverTrue |-> a, lateSignal |-> NoController]

Init ==
    /\ auto \in BOOLEAN
    /\ loadFn = "f1"
    /\ Error \in ErrorOptions
    /\ web = WebInit(loadFn)
    /\ native = NativeInit(loadFn)
    /\ legacy = LegacyInit(loadFn)
    /\ mounted = FALSE
    /\ nextId = 1
    /\ hist = HistInit(auto)

\* An event that may call run() takes the next call number.
CallsRun(a) == a /\ (~web.hasRunRef \/ ~native.hasRunRef \/ ~legacy.hasRunRef)

\* The effects are committed (first mount, or re-committed after a cleanup
\* with the refs and the state preserved): they run in declaration order.
Mount ==
    /\ ~mounted
    /\ CallsRun(auto) => nextId <= MaxCalls
    /\ \E sync \in SyncOutcomes :
         /\ web' = loadFnEffect(autoStartEffect(web, auto, nextId, sync), loadFn)
         /\ native' = loadFnEffectNative(
                         autoStartEffectNative(native, auto, nextId, sync), loadFn)
         /\ legacy' = loadFnEffectLegacy(
                         autoStartEffectLegacy(legacy, auto, nextId, sync), loadFn)
    /\ mounted' = TRUE
    /\ nextId' = IF CallsRun(auto) THEN nextId + 1 ELSE nextId
    /\ hist' = IF hist.activated THEN hist
               ELSE [hist EXCEPT !.activated = TRUE, !.autoAtMount = auto]
    /\ UNCHANGED <<auto, loadFn, Error>>

\* The host renders again with options (a, f); the effects whose deps
\* changed run in declaration order.
Rerender(a, f) ==
    /\ mounted
    /\ <<a, f>> # <<auto, loadFn>>
    /\ (a # auto /\ CallsRun(a)) => nextId <= MaxCalls
    /\ \E sync \in SyncOutcomes :
         LET w1 == IF a # auto THEN autoStartEffect(web, a, nextId, sync) ELSE web
             n1 == IF a # auto THEN autoStartEffectNative(native, a, nextId, sync)
                   ELSE native
             l1 == IF a # auto THEN autoStartEffectLegacy(legacy, a, nextId, sync)
                   ELSE legacy
         IN  /\ web' = IF f # loadFn THEN loadFnEffect(w1, f) ELSE w1
             /\ native' = IF f # loadFn THEN loadFnEffectNative(n1, f) ELSE n1
             /\ legacy' = IF f # loadFn THEN loadFnEffectLegacy(l1, f) ELSE l1
    /\ auto' = a
    /\ loadFn' = f
    /\ nextId' = IF a # auto /\ CallsRun(a) THEN nextId + 1 ELSE nextId
    /\ hist' = [hist EXCEPT !.autoEverTrue = @ \/ a]
    /\ UNCHANGED <<Error, mounted>>

\* The host (or the Try again button of the default error view) calls reload().
Reload(sync) ==
    /\ nextId <= MaxCalls
    /\ web' = reload(web, nextId, sync)
    /\ native' = reloadNative(native, nextId, sync)
    /\ legacy' = reloadLegacy(legacy, nextId, sync)
    /\ nextId' = nextId + 1
    /\ hist' = [hist EXCEPT !.reloads = @ + 1,
                            !.reloadBeforeMount = @ \/ ~hist.activated,
                            !.lateSignal =
                                IF hist.activated /\ ~mounted
                                   /\ web'.abortControllerRef = nextId
                                THEN nextId ELSE @]
    /\ UNCHANGED <<auto, loadFn, Error, mounted>>

\* The promise returned by the loadFn call of event k settles.
Settle(k, o) ==
    /\ k \in web.pending \cup native.pending \cup legacy.pending
    /\ web' = settle(web, k, o)
    /\ native' = settleNative(native, k, o)
    /\ legacy' = settleLegacy(legacy, k, o)
    /\ UNCHANGED <<auto, loadFn, Error, mounted, nextId, hist>>

\* The effects are cleaned up (unmount, or the simulated unmount of a
\* strict-mode / hidden tree, which keeps state and refs).
Unmount ==
    /\ mounted
    /\ web' = cleanup(web)
    /\ mounted' = FALSE
    /\ UNCHANGED <<native, legacy, auto, loadFn, Error, nextId, hist>>

Next ==
    \/ Mount
    \/ \E a \in BOOLEAN, f \in LoadFns : Rerender(a, f)
    \/ \E sync \in SyncOutcomes : Reload(sync)
    \/ \E k \in 1..MaxCalls, o \in Settlements : Settle(k, o)
    \/ Unmount

Spec == Init /\ [][Next]_vars

\* Every promise returned by loadFn settles eventually.
Fairness == \A k \in 1..MaxCalls : WF_vars(\E o \in Settlements : Settle(k, o))

LiveSpec == Init /\ [][Next]_vars /\ Fairness

TypeOK ==
    /\ web.status \in StatusType
    /\ native.status \in StatusType
    /\ web.data \in DataValues
    /\ web.error \in ErrorValues
    /\ nextId \in 1..(MaxCalls + 1)

\* ================================================================ claims
Ids == 1..MaxCalls

\* status, data and error of a hook.
View3(h) == <<h.status, h.data, h.error>>

\* ---------------------------------------------------------------- C1
\* C1: in the guarded web hook, while an invocation A is in flight
\* (isLoadingRef true) a reload() changes nothing in the hook (no loadFn
\* call, no AbortController, nothing queued), no other start does either,
\* and when A settles no further invocation starts and status/data/error
\* are those of A's result.
C1_OverlapIsNoOp ==
    [][ /\ web.isLoadingRef =>
             /\ \A sync \in SyncOutcomes : Reload(sync) => web' = web
             /\ web'.calls = web.calls
             /\ web'.ctrls = web.ctrls
             /\ web'.abortControllerRef = web.abortControllerRef
             /\ web'.pending \subseteq web.pending
        /\ \A k \in Ids, o \in Settlements :
             (Settle(k, o) /\ k \in web.pending) =>
                 /\ web'.calls = web.calls
                 /\ web'.pending = {}
                 /\ ~web'.isLoadingRef
                 /\ o.kind = "resolve" =>
                        web'.status = "success" /\ web'.data = o.value
                 /\ o.kind = "reject" =>
                        web'.status = "error" /\ web'.error = o.value
      ]_vars

\* Two reload() calls with auto = false, the second while the first is in
\* flight: one loadFn invocation, one controller.
C1_Witness ==
    /\ ~hist.autoEverTrue
    /\ hist.reloads = 2
    /\ web.pending = {1}
    /\ web.calls = 1
    /\ web.ctrls = 1

\* ---------------------------------------------------------------- C2
\* C2: data and error are never both non-null, in either hook.
C2_DataErrorExclusive ==
    /\ ~(web.data # Null /\ web.error # Null)
    /\ ~(native.data # Null /\ native.error # Null)

\* ---------------------------------------------------------------- C3
\* C3: status = success implies data present, status = error implies error
\* present, status idle or loading implies data and error both absent.
C3_StatusDeterminesFields ==
    /\ web.status = "success" => web.data # Null
    /\ web.status = "error" => web.error # Null
    /\ web.status \in {"idle", "loading"} => (web.data = Null /\ web.error = Null)

\* ---------------------------------------------------------------- C4
\* C4: in the guarded web hook and in the native hook, the settlement of an
\* invocation that is no longer the most recently started one leaves
\* status, data and error unchanged.
C4_StaleSettlementIgnored ==
    [][ \A k \in Ids, o \in Settlements :
          Settle(k, o) =>
            /\ (k \in web.pending /\ k # web.lastStarted) =>
                   View3(web') = View3(web)
            /\ (k \in native.pending /\ k # native.lastStarted) =>
                   View3(native') = View3(native)
      ]_vars

\* ---------------------------------------------------------------- C5
\* C5: when the effects are cleaned up while an invocation is in flight,
\* the signal passed to it becomes aborted, and the later settlement of
\* that invocation changes neither status nor data nor error.
C5_NoMutationAfterDeactivation ==
    [][ /\ Unmount => web.pending \subseteq web'.aborted
        /\ \A k \in Ids, o \in Settlements :
             (Settle(k, o) /\ k \in web.pending /\ k \in web.aborted) =>
                 View3(web') = View3(web)
      ]_vars

\* ---------------------------------------------------------------- C6
\* C6: the automatic start invokes loadFn at most once, and exactly once
\* when auto was true at the first activation and reload() was not called
\* before it.
C6_AutoStartOnce ==
    /\ web.autoCalls <= 1
    /\ (hist.activated /\ hist.autoAtMount /\ ~hist.reloadBeforeMount) =>
           (web.autoCalls = 1 /\ web.hasRunRef)

\* The automatic invocation has settled and the effects were cleaned up and
\* committed again with auto still true.
C6_Witness ==
    /\ hist.autoAtMount /\ ~hist.reloadBeforeMount
    /\ auto /\ mounted
    /\ web.aborted = {1}
    /\ web.pending = {}
    /\ web.autoCalls = 1
    /\ web.calls = 1

\* ---------------------------------------------------------------- C7
\* C7: while auto has been false in every render and reload() has not been
\* called, loadFn has not been invoked and status is idle.
C7_ManualModeIdle ==
    (~hist.autoEverTrue /\ hist.reloads = 0) =>
        (web.calls = 0 /\ web.status = "idle" /\ web.pending = {})

\* Mounted and rendered again with auto = false, before any reload().
C7_Witness ==
    /\ ~hist.autoEverTrue /\ hist.reloads = 0
    /\ mounted
    /\ web.loadFnRef = "f2"
    /\ web.status = "idle"

\* ---------------------------------------------------------------- C8
\* The variant the claim assigns to (status, data, error, Error option).
C8_Selects(v, status, data, error, DefaultError) ==
    /\ status = "idle" => v = Element(Fallback, Null, Null, Null, Null)
    /\ status = "loading" => v = Element(Loading, Null, Null, Null, Null)
    /\ (status = "success" /\ data # Null) =>
           v = Element(Success, data, Null, Null, Null)
    /\ (status = "error" \/ (status = "success" /\ data = Null)) =>
           IF Error # Null
           THEN v.component = Error
           ELSE v = Element(DefaultError, Null, "Failed to load data.", error, "reload")

\* C8: RenderedView selects idle -> Fallback, loading -> Loading, success
\* with data -> Success with that data, success with null data and error
\* -> the custom Error component if supplied, else the default error view
\* with the fixed message, the captured error and reload.
C8_RenderedViewMapping ==
    /\ C8_Selects(WebView, web.status, web.data, web.error, ErrorView)
    /\ C8_Selects(NativeView, native.status, native.data, native.error,
                  NativeErrorView)

\* status = success with null data: the error path is selected.
C8_Witness ==
    /\ web.status = "success" /\ web.data = Null
    /\ Error = Null
    /\ WebView.component = ErrorView

\* ---------------------------------------------------------------- C9
\* C9: driven by the same events, the native hook and the web hook show
\* the same status, data and error and have invoked loadFn equally often.
C9_NativeEqualsWeb ==
    /\ View3(native) = View3(web)
    /\ native.calls = web.calls

\* ---------------------------------------------------------------- C10
\* C10 (as stated): from status = error a reload() is accepted, invokes
\* loadFn again and moves status to loading.
C10_ReloadFromErrorLoads ==
    [][ \A sync \in SyncOutcomes :
          (web.status = "error" /\ Reload(sync)) =>
              (web'.calls = web.calls + 1 /\ web'.status = "loading")
      ]_vars

\* C10 (amended): in every state with status = error the guard is clear,
\* and a reload() from it invokes loadFn again; status becomes loading
\* unless that call of loadFn throws synchronously, in which case status is
\* error again with the thrown value.
C10_ReloadFromErrorAccepted ==
    [][ /\ web.status = "error" => ~web.isLoadingRef
        /\ \A sync \in SyncOutcomes :
             (web.status = "error" /\ Reload(sync)) =>
                 /\ web'.calls = web.calls + 1
                 /\ web'.lastStarted = nextId
                 /\ IF sync.throws
                    THEN web'.status = "error" /\ web'.error = sync.value
                    ELSE /\ web'.status = "loading"
                         /\ web'.error = Null
                         /\ web'.pending = {nextId}
      ]_vars

\* A failed invocation followed by a reload() that is in flight.
C10_Witness ==
    /\ web.status = "loading"
    /\ web.failures = 1
    /\ web.calls = 2
    /\ hist.reloads = 2
    /\ web.pending = {2}
    /\ ~hist.autoEverTrue

\* ---------------------------------------------------------------- C11
\* C11: the number of loadFn invocations equals the automatic starts (0 or
\* 1) plus the accepted reload() calls, and from status = error (in a
\* mounted hook) every step that is not an accepted reload() leaves
\* status = error and error as it is.
C11_NoRetryWithoutReload ==
    [][ /\ web'.calls = web'.autoCalls + web'.accepted
        /\ web'.autoCalls \in {0, 1}
        /\ (mounted /\ web.status = "error" /\ web'.accepted = web.accepted) =>
               (web'.status = "error" /\ web'.error = web.error)
      ]_vars

\* ---------------------------------------------------------------- C12
\* C12: no failure of loadFn leaves run() or reload(): a synchronous throw
\* and a rejection both end in status = error with the value in error, and
\* the guard is released.
C12_FailuresCaptured ==
    [][ /\ web'.escaped = 0
        /\ web'.failures > web.failures =>
               (web'.status = "error" /\ ~web'.isLoadingRef)
        /\ \A sync \in SyncOutcomes :
             (Reload(sync) /\ ~web.isLoadingRef /\ sync.throws) =>
                 /\ web'.failures = web.failures + 1
                 /\ web'.error = sync.value
        /\ \A k \in Ids, o \in Settlements :
             (Settle(k, o) /\ k \in web.pending /\ o.kind = "reject") =>
                 /\ web'.failures = web.failures + 1
                 /\ web'.error = o.value
      ]_vars

\* Two invocations have failed and the second failure is shown.
C12_Witness ==
    /\ web.failures = 2
    /\ web.calls = 2
    /\ web.status = "error"
    /\ web.error = "e1"
    /\ web.escaped = 0

\* ---------------------------------------------------------------- C13
\* C13: while an invocation whose signal was aborted by the cleanup is in
\* flight, no step without a new start takes status away from loading; in
\* particular its rejection does not give status = error.
C13_CancelledStaysLoading ==
    [][ (web.pending \cap web.aborted # {} /\ web'.calls = web.calls) =>
            web'.status = "loading"
      ]_vars

\* ---------------------------------------------------------------- C14
\* C14: every loadFn invocation calls the loadFn of the latest render.
C14_LatestLoadFnInvoked ==
    [][ web'.calls = web.calls + 1 => web'.lastInvoked = loadFn' ]_vars

\* ---------------------------------------------------------------- C15
\* C15: with auto = true the hook never returns status idle and never
\* selects the Fallback variant.
C15_NoIdleWithAuto ==
    auto => (web.status # "idle" /\ WebView.component # Fallback)

\* ---------------------------------------------------------------- C16
\* The status transitions the claim lists.
C16_Listed ==
    {<<"idle", "loading">>, <<"loading", "success">>, <<"loading", "error">>,
     <<"success", "loading">>, <<"error", "loading">>}

\* C16 (as stated): every change of status in the guarded web hook is one of
\* idle->loading, loading->success, loading->error, success->loading,
\* error->loading.
C16_OnlyListedTransitions ==
    [][ web'.status # web.status =>
            <<web.status, web'.status>> \in C16_Listed ]_vars

\* C16 (amended): every change of status is one of the listed transitions,
\* or goes from idle or success to error in an accepted start whose loadFn
\* call throws synchronously; no step leads to idle.
C16_TransitionsWithSyncThrow ==
    [][ web'.status # web.status =>
            \/ <<web.status, web'.status>> \in C16_Listed
            \/ /\ web.status \in {"idle", "success"}
               /\ web'.status = "error"
               /\ ~web.isLoadingRef
               /\ web'.calls = web.calls + 1
               /\ web'.failures = web.failures + 1
               /\ web'.pending = web.pending
      ]_vars

\* A reload after a success: status went success -> loading.
C16_Witness ==
    /\ web.status = "loading"
    /\ web.data # Null
    /\ web.calls = 2
    /\ web.pending = {2}

\* ---------------------------------------------------------------- C17
\* C17: right after an accepted start (guard clear, loadFn called and its
\* promise awaited) status is loading and data and error are both null.
C17_StartClearsDataAndError ==
    [][ (~web.isLoadingRef /\ web'.calls = web.calls + 1 /\ web'.pending # {}) =>
            (web'.status = "loading" /\ web'.data = Null /\ web'.error = Null)
      ]_vars

\* ---------------------------------------------------------------- C18
\* C18: when the most recently started invocation resolves with v, the
\* state after the settlement has data = v, status = success and error
\* null, in the web hook and in the native hook.
C18_ResolveSetsSuccess ==
    [][ \A k \in Ids, o \in Settlements :
          (Settle(k, o) /\ o.kind = "resolve") =>
            /\ (k \in web.pending /\ k = web.lastStarted) =>
                   View3(web') = <<"success", o.value, Null>>
            /\ (k \in native.pending /\ k = native.lastStarted) =>
                   View3(native') = <<"success", o.value, Null>>
      ]_vars

\* ---------------------------------------------------------------- C19
\* C19: when the most recently started invocation rejects with e, the state
\* after the settlement has error = e, status = error and data null.
C19_RejectSetsError ==
    [][ \A k \in Ids, o \in Settlements :
          (Settle(k, o) /\ o.kind = "reject"
             /\ k \in web.pending /\ k = web.lastStarted) =>
                View3(web') = <<"error", Null, o.value>>
      ]_vars

\* ---------------------------------------------------------------- C20
\* C20: an accepted start allocates a new AbortController, not yet aborted,
\* which replaces the one in abortControllerRef and whose signal is the one
\* passed to loadFn; the only unsettled invocation, if any, is the one that
\* was given the signal of the controller in abortControllerRef.
C20_OneLiveToken ==
    [][ /\ (~web.isLoadingRef /\ web'.calls = web.calls + 1) =>
               /\ web'.ctrls = web.ctrls + 1
               /\ web'.abortControllerRef = nextId
               /\ web'.abortControllerRef # web.abortControllerRef
               /\ web'.abortControllerRef \notin web'.aborted
               /\ web'.lastSignal = web'.abortControllerRef
        /\ Cardinality(web'.pending) <= 1
        /\ web'.pending # {} =>
               /\ web'.pending = {web'.lastStarted}
               /\ web'.lastSignal = web'.abortControllerRef
      ]_vars

\* The second accepted start is in flight with the second controller.
C20_Witness ==
    /\ web.ctrls = 2
    /\ web.pending = {2}
    /\ web.abortControllerRef = 2
    /\ web.lastSignal = 2
    /\ web.aborted = {1}

\* ---------------------------------------------------------------- C21
\* C21: the in-flight guard of the guarded web hook is set exactly while an
\* accepted invocation is unsettled; a step in which an invocation settles,
\* by success or by failure, leaves the guard clear; a reload() or an
\* automatic start that finds the guard clear invokes loadFn.
C21_GuardSpansInvocation ==
    [][ /\ web'.isLoadingRef <=> web'.pending # {}
        /\ web'.pending # web.pending /\ web'.pending \subseteq web.pending =>
               ~web'.isLoadingRef
        /\ (hist'.reloads = hist.reloads + 1 /\ ~web.isLoadingRef) =>
               /\ web'.calls = web.calls + 1
               /\ web'.accepted = web.accepted + 1
        /\ (web'.hasRunRef /\ ~web.hasRunRef /\ ~web.isLoadingRef) =>
               web'.calls = web.calls + 1
      ]_vars

\* A reload() accepted after a successful settlement is in flight.
C21_Witness ==
    /\ web.calls = 2
    /\ web.accepted = 2
    /\ web.pending = {2}
    /\ web.isLoadingRef
    /\ web.status = "loading"
    /\ web.data = "d1"

\* ---------------------------------------------------------------- C22
\* One step of a hook copy without the guard, from h to hn.
C22_Races(h, hn) ==
    /\ hist'.reloads = hist.reloads + 1 =>
           /\ hn.calls = h.calls + 1
           /\ hn.lastStarted = nextId
           /\ hn.status = "loading" => hn.pending = h.pending \cup {nextId}
    /\ \A k \in h.pending : \A o \in Settlements :
           Settle(k, o) =>
               /\ hn.pending = h.pending \ {k}
               /\ hn.status = IF o.kind = "resolve" THEN "success" ELSE "error"
               /\ o.kind = "resolve" => hn.data = o.value
               /\ o.kind = "reject" => hn.error = o.value

\* C22: in the native hook and in the older web hook every reload() invokes
\* loadFn, also while another invocation is pending (the two are then
\* pending together), and each settlement writes its status and its field
\* (data on success, error on failure) whichever invocation it belongs to:
\* after both settled, the status is the one of the last settlement.
C22_LastSettlementWins ==
    [][ C22_Races(native, native') /\ C22_Races(legacy, legacy') ]_vars

\* Invocation 2, started last, resolved first; invocation 1 was rejected
\* last (the guarded hook, which only ran invocation 1, shows its outcome).
C22_Witness ==
    /\ web.calls = 1 /\ web.status = "error" /\ web.data = Null
    /\ native.calls = 2 /\ native.pending = {} /\ native.lastStarted = 2
    /\ native.status = "error" /\ native.data = "d1"
    /\ legacy.calls = 2 /\ legacy.pending = {}
    /\ legacy.status = "error" /\ legacy.data = "d1"

\* ---------------------------------------------------------------- C23
\* C23: the teardown step aborts the controller in abortControllerRef and
\* changes nothing else (status, data, error and the guard keep their
\* values); with no controller in the ref it changes nothing at all.
C23_TeardownOnlySignals ==
    [][ (mounted /\ ~mounted') =>
            /\ View3(web') = View3(web)
            /\ web'.isLoadingRef = web.isLoadingRef
            /\ web' = [web EXCEPT !.aborted =
                           @ \cup ({web.abortControllerRef} \ {NoController})]
            /\ web.abortControllerRef = NoController => web' = web
            /\ native' = native
            /\ legacy' = legacy
      ]_vars

\* Torn down while the first invocation is in flight.
C23_Witness ==
    /\ ~mounted
    /\ web.pending = {1}
    /\ web.aborted = {1}
    /\ web.isLoadingRef
    /\ web.status = "loading"
    /\ hist.reloads = 1

\* ---------------------------------------------------------------- C24
\* C24: hasRunRef is true once any invocation has been issued and stays
\* true, so no automatic invocation is issued once loadFn has been invoked
\* by a manual reload().
C24_StartedFlagLatches ==
    [][ /\ web'.calls > 0 => web'.hasRunRef
        /\ web.hasRunRef => web'.hasRunRef
        /\ (web.calls > 0 /\ hist.reloads > 0) => web'.autoCalls = web.autoCalls
        /\ native'.calls > 0 => native'.hasRunRef
        /\ (native.calls > 0 /\ hist.reloads > 0) =>
               native'.autoCalls = native.autoCalls
      ]_vars

\* ---------------------------------------------------------------- C25
\* C25: once the auto-start effect has fired (hasRunRef is set), the latch
\* stays set and no later step, whatever the changes of auto, adds an
\* automatic invocation.
C25_NoSecondAutoStart ==
    [][ web.hasRunRef =>
            /\ web'.hasRunRef
            /\ web'.autoCalls = web.autoCalls
            /\ web'.calls # web.calls => hist'.reloads = hist.reloads + 1
      ]_vars

\* The automatic start fired at mount and auto was switched off later.
C25_Witness ==
    /\ hist.autoAtMount
    /\ ~auto
    /\ mounted
    /\ web.hasRunRef
    /\ web.autoCalls = 1
    /\ web.calls = 2

\* ---------------------------------------------------------------- C26
\* C26: when every loadFn promise settles eventually, a state of the
\* guarded web hook with status loading is followed by a state with status
\* success or error, and a set guard is followed by a clear guard.
C26_LoadingSettles ==
    /\ (web.status = "loading") ~> (web.status \in {"success", "error"})
    /\ web.isLoadingRef ~> ~web.isLoadingRef

\* The first invocation was torn down in flight and settled afterwards.
C26_Witness ==
    /\ web.calls = 1
    /\ web.aborted = {1}
    /\ web.pending = {}
    /\ ~web.isLoadingRef
    /\ web.status = "success"

\* ---------------------------------------------------------------- C27
\* C27: in the guarded web hook, a step in which the in-flight invocation
\* does not settle leaves the guard set, invokes loadFn for nothing and
\* leaves the status loading: reload() is refused for as long as the
\* invocation is unsettled.
C27_UnsettledBlocksReload ==
    [][ (web.isLoadingRef /\ web.pending \subseteq web'.pending) =>
            /\ web'.isLoadingRef
            /\ web'.pending = web.pending
            /\ web'.calls = web.calls
            /\ web'.lastInvoked = web.lastInvoked
            /\ web.status = "loading"
            /\ web'.status = "loading"
      ]_vars

\* Two reload() calls, the second refused, and a teardown: invocation 1 is
\* still the only one and still loading.
C27_Witness ==
    /\ hist.reloads = 2
    /\ web.calls = 1
    /\ web.accepted = 1
    /\ web.pending = {1}
    /\ web.aborted = {1}
    /\ web.isLoadingRef
    /\ web.status = "loading"

\* ---------------------------------------------------------------- C28
\* C28 as stated: once data is non-null it is non-null in every later
\* state, in the guarded web hook and in the native hook.
C28_DataStaysNonNull ==
    [][ /\ web.data # Null => web'.data # Null
        /\ native.data # Null => native'.data # Null
      ]_vars

\* C28: data changes only in the step in which an invocation resolves, and
\* then to the resolved value (which may be null); starts, failures,
\* teardown and option changes leave it as it is.
C28_DataOnlyFromResolution ==
    [][ /\ web'.data # web.data =>
               \E k \in web.pending : \E o \in Settlements :
                   /\ Settle(k, o)
                   /\ o.kind = "resolve"
                   /\ web'.data = o.value
        /\ native'.data # native.data =>
               \E k \in native.pending : \E o \in Settlements :
                   /\ Settle(k, o)
                   /\ o.kind = "resolve"
                   /\ native'.data = o.value
      ]_vars

\* A value loaded by the first invocation is still there after the second
\* one failed.
C28_Witness ==
    /\ web.calls = 2
    /\ web.status = "error"
    /\ web.error = "e1"
    /\ web.data = "d1"
    /\ native.status = "error"
    /\ native.data = "d1"

\* ---------------------------------------------------------------- C29
\* C29: in the guarded web hook the only unsettled invocation is the one
\* that owns the controller in abortControllerRef, and right after the
\* teardown step the signal of every unsettled invocation is aborted.
C29_UnsettledAbortedAtTeardown ==
    [][ /\ web'.pending \subseteq {web'.abortControllerRef}
        /\ (mounted /\ ~mounted') =>
               /\ web'.pending = web.pending
               /\ \A k \in web'.pending : k \in web'.aborted
      ]_vars

\* Torn down while the second invocation is in flight.
C29_Witness ==
    /\ ~mounted
    /\ web.pending = {2}
    /\ 2 \in web.aborted
    /\ web.abortControllerRef = 2

\* ---------------------------------------------------------------- C30
\* A reload() after a teardown that finds the guard clear is accepted: it
\* invokes loadFn with the signal of a new controller that is not aborted.
C30_LateAccepted ==
    (hist.activated /\ ~mounted /\ ~web.isLoadingRef
       /\ hist'.reloads = hist.reloads + 1) =>
        /\ web'.calls = web.calls + 1
        /\ web'.accepted = web.accepted + 1
        /\ web'.abortControllerRef = nextId
        /\ web'.lastSignal = nextId
        /\ nextId \notin web'.aborted
        /\ hist'.lateSignal = nextId

\* C30 as stated: a reload() after teardown is accepted with a new signal,
\* and that signal is not aborted in any later state.
C30_LateSignalNeverAborted ==
    [][ /\ C30_LateAccepted
        /\ hist'.lateSignal # NoController => hist'.lateSignal \notin web'.aborted
      ]_vars

\* C30: a reload() after teardown is accepted with a new signal that is not
\* aborted; a signal is aborted only by a teardown step, for the controller
\* then in abortControllerRef, so the new signal stays live unless the
\* effects are committed again and torn down again.
C30_LateSignalAbortedOnlyByTeardown ==
    [][ /\ C30_LateAccepted
        /\ \A k \in web'.aborted \ web.aborted :
               mounted /\ ~mounted' /\ k = web.abortControllerRef
        /\ ~mounted => web'.aborted = web.aborted
      ]_vars

\* An invocation started after the teardown is in flight with a live signal.
C30_Witness ==
    /\ ~mounted
    /\ hist.lateSignal = 2
    /\ web.pending = {2}
    /\ web.abortControllerRef = 2
    /\ web.aborted = {1}

\* ---------------------------------------------------------------- C31
\* C31: when the effects of an instance that was torn down are committed
\* again with its refs kept, the step invokes loadFn for nothing: the latch
\* of an automatic start that was issued is still set and the count of
\* automatic invocations is unchanged; an aborted signal stays aborted in
\* every step; and unless reload() was accepted after the teardown, every
\* invocation still unsettled after the re-activation has an aborted signal.
C31_ReactivationStartsNothing ==
    [][ /\ web.aborted \subseteq web'.aborted
        /\ (~mounted /\ mounted' /\ hist.activated) =>
               /\ web'.calls = web.calls
               /\ web'.autoCalls = web.autoCalls
               /\ web.autoCalls > 0 => web'.hasRunRef
               /\ web'.aborted = web.aborted
               /\ web'.pending = web.pending
               /\ hist.lateSignal = NoController =>
                      web'.pending \subseteq web'.aborted
      ]_vars

\* Re-activated with auto on: the automatic invocation issued at the first
\* mount is the only one, is unsettled and has its signal aborted.
C31_Witness ==
    /\ mounted
    /\ auto
    /\ hist.autoAtMount
    /\ ~hist.reloadBeforeMount
    /\ hist.reloads = 0
    /\ web.hasRunRef
    /\ web.autoCalls = 1
    /\ web.calls = 1
    /\ web.pending = {1}
    /\ web.aborted = {1}

\* ---------------------------------------------------------------- C32
\* C32: in every reachable state of the guarded web hook the in-flight
\* guard is set if and only if status is loading, so a reload() is refused
\* by the guard exactly in the states with status loading.
C32_GuardIffLoading ==
    web.isLoadingRef <=> web.status = "loading"

\* A reload() after a failure is in flight: guard set, status loading.
C32_Witness ==
    /\ mounted
    /\ web.failures = 1
    /\ web.calls = 2
    /\ web.pending = {2}
    /\ web.isLoadingRef
    /\ web.status = "loading"

====
